---- MODULE Spec2Model ----
(***************************************************************************)
(* Model of graph_generator.py: the table classifier                       *)
(* (DataProcessor.generate_sector_dict), the upsert query of               *)
(* Neo4jLoader.load_dataframe and the ingestion loop of __main__.          *)
(*                                                                         *)
(* Identifiers that end up as query text (table names, sector and          *)
(* sub-sector ids) are sequences of one-character strings, so that         *)
(* str.split, str.replace and the reading of a quoted literal work on      *)
(* characters.  Row data is passed as bound parameters and is modelled by  *)
(* plain values.                                                           *)
(***************************************************************************)
EXTENDS Integers, Sequences, FiniteSets, Bags, TLC

VARIABLES
    pc,          \* position in __main__ ("engine" when load_dataframe is driven directly)
    data_dict,   \* DataProcessor.data_dict: sequence of [name, df], in insertion order
    sector_dict, \* DataProcessor.sector_dict: sequence of [key, value], in insertion order
    idx,         \* position of the for loop of __main__ in sector_dict.keys()
    driver,      \* Neo4jLoader.driver: "none", "open" or "closed"
    graph,       \* contents of the graph store
    args,        \* arguments of the last load_dataframe call made by __main__
    raised,      \* the exception in flight or that ended the run ("no": none)
    log,         \* what was issued on the connection, in order
    firstWrite,  \* history: for each Metrics node, toFloat of the value of the upsert that created it
    lastWrite    \* history: for each Metrics node, toFloat of the value of the latest upsert of its key

vars == <<pc, data_dict, sector_dict, idx, driver, graph, args, raised, log, firstWrite, lastWrite>>

----------------------------------------------------------------------------
(* Bounds of the model *)

\* rows per table
MaxRows == 2
\* tables loaded by load_data in one run
MaxTables == 3

----------------------------------------------------------------------------
(* Python values *)

\* Python's None; no character sequence equals it
None == <<"NoneType">>

\* str(x), lines 114-115: str(None) is the text None
Str(x) == IF x = None THEN <<"N", "o", "n", "e">> ELSE x

\* truth value of an `if x` test on a str or None
Truthy(x) == x # None /\ Len(x) > 0

RECURSIVE SplitAcc(_, _, _)
\* key.split('_'): parts closed so far, the part being read, the rest of the text
SplitAcc(done, cur, rest) ==
    IF rest = <<>> THEN Append(done, cur)
    ELSE IF Head(rest) = "_" THEN SplitAcc(Append(done, cur), <<>>, Tail(rest))
    ELSE SplitAcc(done, Append(cur, Head(rest)), Tail(rest))

Split(key) == SplitAcc(<<>>, <<>>, key)

RECURSIVE Replace(_)
\* s.replace("'", "\\'"): every quote becomes backslash, quote
Replace(s) ==
    IF s = <<>> THEN <<>>
    ELSE IF Head(s) = "'" THEN <<"\\", "'">> \o Replace(Tail(s))
    ELSE <<Head(s)>> \o Replace(Tail(s))

----------------------------------------------------------------------------
(* Reading of the text placed between single quotes in the query *)

\* characters that may follow a backslash inside a quoted literal, and what they stand for
EscapeOf(c) ==
    CASE c = "'"  -> "'"
      [] c = "\\" -> "\\"
      [] c = "\"" -> "\""
      [] OTHER    -> "invalid"

RECURSIVE ReadLiteralAcc(_, _)
\* text is what follows the opening quote, up to (not including) the quote the
\* query template puts after the embedded id
ReadLiteralAcc(val, text) ==
    IF text = <<>> THEN [ok |-> TRUE, val |-> val]
    ELSE IF Head(text) = "'" THEN [ok |-> FALSE, val |-> val]         \* closes the literal early
    ELSE IF Head(text) = "\\" THEN
        IF Len(text) = 1 THEN [ok |-> FALSE, val |-> val]             \* escapes the template's quote
        ELSE IF EscapeOf(text[2]) = "invalid" THEN [ok |-> FALSE, val |-> val]
        ELSE ReadLiteralAcc(Append(val, EscapeOf(text[2])), Tail(Tail(text)))
    ELSE ReadLiteralAcc(Append(val, Head(text)), Tail(text))

ReadLiteral(text) == ReadLiteralAcc(<<>>, text)

----------------------------------------------------------------------------
(* Row data *)

IntCell(n) == <<"int", n>>
FltCell(n) == <<"float", n>>

\* toInteger(row.Year), line 133
ToInteger(cell) == IntCell(cell[2])
\* toFloat(row[columnName]), line 134
ToFloat(cell) == FltCell(cell[2])

\* column order of a table
AllColumns == <<"State", "Region", "County", "county_id", "Year", "Employment">>

\* an exclusion list that also holds county_id
ExcludedWithCountyId == {"State", "Region", "County", "Year", "county_id"}

\* the list of line 132
ExcludedColumns == {"State", "Region", "County", "Year"}

\* keys(row), line 130
Keys(row) == SelectSeq(AllColumns, LAMBDA c : c \in DOMAIN row)

BaseRows ==
    { [State |-> "OH", Region |-> "NE", County |-> "Cuyahoga", county_id |-> IntCell(39035), Year |-> y] :
        y \in {IntCell(2020), FltCell(2020)} }

MetricRows ==
    { [State |-> "OH", Region |-> "NE", County |-> "Cuyahoga", county_id |-> IntCell(39035), Year |-> y,
       Employment |-> e] :
        y \in {IntCell(2020), FltCell(2020)}, e \in {IntCell(1), IntCell(2)} }

SeqsUpTo(S, n) == UNION { [1..k -> S] : k \in 0..n }

\* df.to_dict('records'), line 138: every row of a table has the table's columns
Dfs == SeqsUpTo(BaseRows, MaxRows) \cup SeqsUpTo(MetricRows, MaxRows)

----------------------------------------------------------------------------
(* The graph store *)

EmptyFcn == [x \in {} |-> x]
EmptyGraph == [nodes |-> EmptyBag, edges |-> EmptyBag, value |-> EmptyFcn]

Node(label, key) == <<label, key>>
Edge(from, type, to) == <<from, type, to>>
\* a variable bound to NULL, line 129
Null == <<"NULL", <<>>>>

NodesOf(g, label) == { n \in BagToSet(g.nodes) : n[1] = label }

\* CREATE in place of MERGE
CreateNode(g, n) == [g EXCEPT !.nodes = @ (+) SetToBag({n})]

\* MERGE (n:Label {key})
MergeNode(g, n) ==
    IF BagIn(n, g.nodes) THEN g ELSE [g EXCEPT !.nodes = @ (+) SetToBag({n})]

\* MERGE (a)-[:TYPE]->(b)
MergeEdge(g, e) ==
    IF BagIn(e, g.edges) THEN g ELSE [g EXCEPT !.edges = @ (+) SetToBag({e})]

\* SET in place of ON CREATE SET
MergeMetricSet(g, n, v) ==
    IF BagIn(n, g.nodes)
    THEN [g EXCEPT !.value = [m \in DOMAIN @ |-> IF m = n THEN v ELSE @[m]]]
    ELSE [g EXCEPT !.nodes = @ (+) SetToBag({n}), !.value = (n :> v) @@ @]

\* MERGE (metric:Metrics {...}) ON CREATE SET metric.value = v, lines 133-134
MergeMetric(g, n, v) ==
    IF BagIn(n, g.nodes) THEN g
    ELSE [g EXCEPT !.nodes = @ (+) SetToBag({n}), !.value = (n :> v) @@ @]

----------------------------------------------------------------------------
(* The query of load_dataframe, lines 117-136 *)

RECURSIVE MetricsUpsert(_, _, _, _)
\* lines 130-135 for one row: one pass per column name left in cols.  acc is
\* [graph, raised]; a failed statement ends the query
MetricsUpsert(acc, row, subsector, cols) ==
    IF cols = <<>> \/ acc.raised # "no" THEN acc
    ELSE LET columnName == Head(cols)
             metric == Node("Metrics", <<columnName, ToInteger(row.Year), row.County>>)
             g1 == MergeMetric(acc.graph, metric, ToFloat(row[columnName]))
         IN  IF subsector = Null
             \* MERGE of a relationship whose start node is NULL
             THEN [graph |-> g1, raised |-> "CypherExecutionError"]
             ELSE MetricsUpsert(
                      [graph |-> MergeEdge(g1, Edge(subsector, "REPORTS", metric)), raised |-> "no"],
                      row, subsector, Tail(cols))

\* lines 119-135 for one row.  sectorKey is the value of the literal of line 124;
\* hasSub says whether line 128 put its two MERGE clauses in the query, subKey is
\* the value of their literal
RowUpsert(g, row, sectorKey, hasSub, subKey) ==
    LET state   == Node("State", <<row.State>>)
        region  == Node("EDD", <<row.Region>>)
        county  == Node("County", <<row.County, row.county_id>>)
        sector  == Node("Sector", <<sectorKey>>)
        sub     == Node("Sub_Sector", <<subKey>>)
        g1 == MergeNode(g, state)
        g2 == MergeNode(g1, region)
        g3 == MergeEdge(g2, Edge(state, "HAS_EDD", region))
        g4 == MergeNode(g3, county)
        g5 == MergeEdge(g4, Edge(region, "HAS_COUNTY", county))
        g6 == MergeNode(g5, sector)
        g7 == MergeEdge(g6, Edge(county, "HAS_SECTOR", sector))
        g8 == IF hasSub
              THEN MergeEdge(MergeNode(g7, sub), Edge(sector, "HAS_SUB_SECTOR", sub))
              ELSE g7
        subsector == IF hasSub THEN sub ELSE Null
        columns == SelectSeq(Keys(row), LAMBDA c : c \notin ExcludedColumns)
    IN  MetricsUpsert([graph |-> g8, raised |-> "no"], row, subsector, columns)

RECURSIVE RowsUpsert(_, _, _, _, _)
\* UNWIND $rows AS row, line 118
RowsUpsert(acc, rows, sectorKey, hasSub, subKey) ==
    IF rows = <<>> \/ acc.raised # "no" THEN acc
    ELSE RowsUpsert(RowUpsert(acc.graph, Head(rows), sectorKey, hasSub, subKey),
                    Tail(rows), sectorKey, hasSub, subKey)

\* the test of lines 128 and 129, made on the text str() and replace() left
SubClausePresent(sub_sector_text) == Truthy(sub_sector_text)

\* load_dataframe(df, sub_sector_name, sector_name) on graph g: the graph it
\* leaves and the exception it raises.  session.run is one auto-commit
\* transaction: a query that fails leaves the graph as it was
load_dataframe(g, df, sub_sector_name, sector_name) ==
    LET sub_text    == Replace(Str(sub_sector_name))      \* line 114
        sector_text == Replace(Str(sector_name))          \* line 115
        hasSub      == SubClausePresent(sub_text)
        sectorLit   == ReadLiteral(sector_text)           \* '{sector_name}', line 124
        subLit      == ReadLiteral(sub_text)              \* '{sub_sector_name}', line 128
        rows        == df                                 \* line 138
    IN  IF ~sectorLit.ok \/ (hasSub /\ ~subLit.ok)
        THEN [graph |-> g, raised |-> "CypherSyntaxError"]
        ELSE LET out == RowsUpsert([graph |-> g, raised |-> "no"], rows,
                                   sectorLit.val, hasSub, subLit.val)
             IN  IF out.raised = "no" THEN out ELSE [graph |-> g, raised |-> out.raised]

\* what the history variable records for a call: the Metrics nodes the call
\* creates, each with toFloat of the value of the first row of the batch that names it
RECURSIVE FirstCarried(_, _)
FirstCarried(fw, rows) ==
    IF rows = <<>> THEN fw
    ELSE LET row == Head(rows)
             new == { c \in DOMAIN row \ ExcludedColumns :
                        Node("Metrics", <<c, ToInteger(row.Year), row.County>>) \notin DOMAIN fw }
             add == [ n \in { Node("Metrics", <<c, ToInteger(row.Year), row.County>>) : c \in new } |->
                        ToFloat(row[n[2][1]]) ]
         IN  FirstCarried(add @@ fw, Tail(rows))

RECURSIVE LastCarried(_, _)
LastCarried(lw, rows) ==
    IF rows = <<>> THEN lw
    ELSE LET row == Head(rows)
             add == [ n \in { Node("Metrics", <<c, ToInteger(row.Year), row.County>>) :
                                c \in DOMAIN row \ ExcludedColumns } |->
                        ToFloat(row[n[2][1]]) ]
         IN  LastCarried(add @@ lw, Tail(rows))

----------------------------------------------------------------------------
(* load_dataframe driven directly, on any table and any ids *)

Retail  == <<"R", "e", "t", "a", "i", "l">>
Grocery == <<"G", "r", "o", "c", "e", "r", "y">>
Housing == <<"H", "o", "u", "s", "i", "n", "g">>
\* Retail's
RetailQ == Retail \o <<"'", "s">>
\* \'s : a backslash, then a quote
BackslashQ == <<"\\", "'", "s">>

SectorIds == {Retail, RetailQ}
SubSectorIds == {None, <<>>, Grocery}

NoArgs == [called |-> FALSE, df |-> <<>>, sub_sector_name |-> None, sector_name |-> None]

\* one call of load_dataframe, lines 103-140.  storeUp: the graph store answers;
\* when it does not, session.run raises and nothing is written
Call(df, sub_sector_name, sector_name, storeUp) ==
    LET out == load_dataframe(graph, df, sub_sector_name, sector_name)
    IN  IF storeUp
        THEN /\ graph' = out.graph
             /\ raised' = out.raised
             /\ firstWrite' = IF out.raised = "no" THEN FirstCarried(firstWrite, df) ELSE firstWrite
             /\ lastWrite' = IF out.raised = "no" THEN LastCarried(lastWrite, df) ELSE lastWrite
        ELSE /\ graph' = graph
             /\ raised' = "ServiceUnavailable"
             /\ UNCHANGED <<firstWrite, lastWrite>>

InitEngine ==
    /\ pc = "engine"
    /\ data_dict = <<>>
    /\ sector_dict = <<>>
    /\ idx = 0
    /\ driver = "open"
    /\ graph = EmptyGraph
    /\ args = NoArgs
    /\ raised = "no"
    /\ log = <<>>
    /\ firstWrite = EmptyFcn
    /\ lastWrite = EmptyFcn

\* any call; raised is the outcome of the last call only
LoadDataframe ==
    /\ pc = "engine"
    /\ \E df \in Dfs, sub \in SubSectorIds, sec \in SectorIds : Call(df, sub, sec, TRUE)
    /\ UNCHANGED <<pc, data_dict, sector_dict, idx, driver, args, log>>

\* a call made while the graph store is unreachable
LoadDataframeStoreDown ==
    /\ pc = "engine"
    /\ Call(<<>>, None, Retail, FALSE)
    /\ UNCHANGED <<pc, data_dict, sector_dict, idx, driver, args, log>>

NextEngine == LoadDataframe \/ LoadDataframeStoreDown

SpecEngine == InitEngine /\ [][NextEngine]_vars

----------------------------------------------------------------------------
(* DataProcessor.generate_sector_dict, lines 63-69 *)

\* d.setdefault(k, v): an entry already there is kept
DictKeep(d, k, v) ==
    IF \E j \in 1..Len(d) : d[j].key = k THEN d
    ELSE Append(d, [key |-> k, value |-> v])

\* d[k] = v on a dict: a key already there keeps its place and takes the new value
DictSet(d, k, v) ==
    IF \E j \in 1..Len(d) : d[j].key = k
    THEN [j \in 1..Len(d) |-> IF d[j].key = k THEN [key |-> k, value |-> v] ELSE d[j]]
    ELSE Append(d, [key |-> k, value |-> v])

RECURSIVE generate_sector_dict(_, _)
\* the loop of line 67 over the keys left, on sector_dict sd
generate_sector_dict(sd, keys) ==
    IF keys = <<>> THEN sd
    ELSE LET parts == Split(Head(keys))
         IN  generate_sector_dict(
                 DictSet(sd, parts[1], IF Len(parts) > 1 THEN parts[2] ELSE None),
                 Tail(keys))

\* data_dict.keys()
DataKeys(dd) == [j \in 1..Len(dd) |-> dd[j].name]

\* data_dict[name]; the caller checks that the key is there
Lookup(dd, name) == (CHOOSE j \in 1..Len(dd) : dd[j].name = name)

----------------------------------------------------------------------------
(* The tables of a run *)

Underscore(a, b) == a \o <<"_">> \o b

TableNames ==
    { Housing,                                       \* Housing
      Retail,                                        \* Retail
      Underscore(Retail, Grocery),                   \* Retail_Grocery
      Underscore(Underscore(Retail, Grocery), Housing), \* Retail_Grocery_Housing
      Underscore(Retail, <<>>),                      \* Retail_
      Underscore(<<>>, Grocery),                     \* _Grocery
      Underscore(RetailQ, Grocery),                  \* Retail's_Grocery
      BackslashQ }                                   \* \'s

RowA == [State |-> "OH", Region |-> "NE", County |-> "Cuyahoga", county_id |-> IntCell(39035),
         Year |-> IntCell(2020), Employment |-> IntCell(1)]
RowB == [State |-> "OH", Region |-> "NE", County |-> "Cuyahoga", county_id |-> IntCell(39035),
         Year |-> FltCell(2020), Employment |-> IntCell(2)]

TableDfs == {<<RowA>>, <<RowB>>}

\* what load_data can leave in data_dict: distinct names, each with its table
DataDicts ==
    { dd \in SeqsUpTo([name : TableNames, df : TableDfs], MaxTables) :
        \A j, k \in 1..Len(dd) : j # k => dd[j].name # dd[k].name }

----------------------------------------------------------------------------
(* __main__, lines 156-182 *)

Init ==
    /\ pc = "generate_sector_dict"
    /\ data_dict \in DataDicts
    /\ sector_dict = <<>>
    /\ idx = 0
    /\ driver = "none"
    /\ graph = EmptyGraph
    /\ args = NoArgs
    /\ raised = "no"
    /\ log = <<>>
    /\ firstWrite = EmptyFcn
    /\ lastWrite = EmptyFcn

\* line 158
GenerateSectorDict ==
    /\ pc = "generate_sector_dict"
    /\ sector_dict' = generate_sector_dict(sector_dict, DataKeys(data_dict))
    /\ pc' = "connect"
    /\ UNCHANGED <<data_dict, idx, driver, graph, args, raised, log, firstWrite, lastWrite>>

\* line 167
Connect ==
    /\ pc = "connect"
    /\ driver' = "open"
    /\ idx' = 1
    /\ pc' = "loop"
    /\ UNCHANGED <<data_dict, sector_dict, graph, args, raised, log, firstWrite, lastWrite>>

\* line 167 raising: there is no loader, and the try statement is not entered
ConnectFails ==
    /\ pc = "connect"
    /\ raised' = "DriverError"
    /\ pc' = "exit_err"
    /\ UNCHANGED <<data_dict, sector_dict, idx, driver, graph, args, log, firstWrite, lastWrite>>

\* the key of data_dict that lines 175 and 178 look up for entry i -> v
LookupKey(i, v) == IF Truthy(v) THEN Underscore(i, v) ELSE i

\* the arguments lines 175 and 178 pass for entry i -> v
MainArgs(i, v) ==
    IF Truthy(v) THEN [sub_sector_name |-> i, sector_name |-> v]
    ELSE [sub_sector_name |-> None, sector_name |-> i]

HasTable(dd, name) == \E j \in 1..Len(dd) : dd[j].name = name

\* one pass of the loop of line 172 whose table is there: lines 173-178
IngestEntry ==
    /\ pc = "loop"
    /\ idx <= Len(sector_dict)
    /\ LET i  == sector_dict[idx].key
           v  == sector_dict[idx].value
           a  == MainArgs(i, v)
       IN  /\ HasTable(data_dict, LookupKey(i, v))
           /\ LET df == data_dict[Lookup(data_dict, LookupKey(i, v))].df
              IN  /\ \E storeUp \in BOOLEAN : Call(df, a.sub_sector_name, a.sector_name, storeUp)
                  /\ args' = [called |-> TRUE, df |-> df, sub_sector_name |-> a.sub_sector_name,
                              sector_name |-> a.sector_name]
           /\ log' = Append(log, [op |-> "run", table |-> LookupKey(i, v)])
    /\ pc' = IF raised' = "no" THEN "loop" ELSE "finally"
    /\ idx' = IF raised' = "no" THEN idx + 1 ELSE idx
    /\ UNCHANGED <<data_dict, sector_dict, driver>>

\* a KeyError swallowed: the loop goes on with the next entry
LookupSkips ==
    /\ pc = "loop"
    /\ idx <= Len(sector_dict)
    /\ ~HasTable(data_dict, LookupKey(sector_dict[idx].key, sector_dict[idx].value))
    /\ idx' = idx + 1
    /\ UNCHANGED <<pc, data_dict, sector_dict, driver, graph, args, raised, log, firstWrite, lastWrite>>

\* one pass of the loop whose table is not in data_dict: the subscript of line
\* 175 or 178 raises KeyError
LookupFails ==
    /\ pc = "loop"
    /\ idx <= Len(sector_dict)
    /\ ~HasTable(data_dict, LookupKey(sector_dict[idx].key, sector_dict[idx].value))
    /\ raised' = "KeyError"
    /\ pc' = "finally"
    /\ UNCHANGED <<data_dict, sector_dict, idx, driver, graph, args, log, firstWrite, lastWrite>>

\* the loop stops one entry early
LoopDoneEarly ==
    /\ pc = "loop"
    /\ idx >= Len(sector_dict)
    /\ pc' = "finally"
    /\ UNCHANGED <<data_dict, sector_dict, idx, driver, graph, args, raised, log, firstWrite, lastWrite>>

\* the keys are exhausted: line 179
LoopDone ==
    /\ pc = "loop"
    /\ idx > Len(sector_dict)
    /\ pc' = "finally"
    /\ UNCHANGED <<data_dict, sector_dict, idx, driver, graph, args, raised, log, firstWrite, lastWrite>>

\* a close that is not in a finally clause: an exception skips it
CloseOnSuccessOnly ==
    /\ pc = "finally"
    /\ driver' = IF raised = "no" THEN "closed" ELSE driver
    /\ log' = IF raised = "no" THEN Append(log, [op |-> "close", table |-> <<>>]) ELSE log
    /\ pc' = IF raised = "no" THEN "exit_ok" ELSE "exit_err"
    /\ UNCHANGED <<data_dict, sector_dict, idx, graph, args, raised, firstWrite, lastWrite>>

\* lines 181-182, then the end of the script or the exception leaving it
Finally ==
    /\ pc = "finally"
    /\ driver' = "closed"
    /\ log' = Append(log, [op |-> "close", table |-> <<>>])
    /\ pc' = IF raised = "no" THEN "exit_ok" ELSE "exit_err"
    /\ UNCHANGED <<data_dict, sector_dict, idx, graph, args, raised, firstWrite, lastWrite>>

Next ==
    \/ GenerateSectorDict
    \/ Connect
    \/ ConnectFails
    \/ IngestEntry
    \/ LookupFails
    \/ LoopDone
    \/ Finally

Spec == Init /\ [][Next]_vars

----------------------------------------------------------------------------
(* Properties of load_dataframe, checked under SpecEngine *)

AllRows == BaseRows \cup MetricRows

NoDuplicates(g) ==
    /\ \A n \in BagToSet(g.nodes) : CopiesIn(n, g.nodes) = 1
    /\ \A e \in BagToSet(g.edges) : CopiesIn(e, g.edges) = 1

MetricNode(row, c) == Node("Metrics", <<c, ToInteger(row.Year), row.County>>)

\* C1: idempotence of ingestion.  From every reachable graph and for every
\* input, a second run of load_dataframe on the same input leaves the graph
\* (nodes, edges, Metric values) exactly as the first run left it; a row given
\* twice in one batch leaves what the row given once leaves; and no node or edge
\* is ever held twice.
C1_Idempotent ==
    /\ NoDuplicates(graph)
    /\ \A df \in Dfs, sub \in SubSectorIds, sec \in SectorIds :
           LET once  == load_dataframe(graph, df, sub, sec)
               twice == load_dataframe(once.graph, df, sub, sec)
           IN  /\ twice.graph = once.graph
               /\ NoDuplicates(once.graph)
    /\ \A row \in AllRows, sub \in SubSectorIds, sec \in SectorIds :
           load_dataframe(graph, <<row, row>>, sub, sec).graph
               = load_dataframe(graph, <<row>>, sub, sec).graph

\* a graph that already holds everything some non-empty batch writes: running
\* that batch again, with Metric values in the graph, changes nothing
C1_Witness ==
    /\ raised = "no"
    /\ DOMAIN graph.value # {}
    /\ \E row \in MetricRows, sec \in SectorIds :
           /\ MetricNode(row, "Employment") \in DOMAIN graph.value
           /\ graph.value[MetricNode(row, "Employment")] # ToFloat(row.Employment)
           /\ load_dataframe(graph, <<row>>, Grocery, sec).graph = graph

\* C2: first-write-wins.  The value of every Metrics node is toFloat of the value
\* carried by the upsert that created its key, whatever later upserts of the
\* key carried; every Metrics node has a value.
C2_FirstWriteWins ==
    /\ DOMAIN graph.value = NodesOf(graph, "Metrics")
    /\ DOMAIN firstWrite = DOMAIN graph.value
    /\ \A n \in DOMAIN graph.value : graph.value[n] = firstWrite[n]

\* a later upsert of a key carried another value than the first one
C2_Witness ==
    \E n \in DOMAIN graph.value :
        /\ lastWrite[n] # firstWrite[n]
        /\ graph.value[n] = firstWrite[n]
        /\ graph.value[n][1] = "float"

\* C5: dimension exclusion.  For every input whose transaction commits, the
\* Metrics nodes it adds are exactly those of the columns of its rows other than
\* State, Region, County and Year (county_id among them), each keyed by
\* (column name, integer Year, County) and each held once.
C5_DimensionExclusion ==
    \A df \in Dfs, sub \in SubSectorIds, sec \in SectorIds :
        LET out == load_dataframe(graph, df, sub, sec)
            expected == { Node("Metrics", <<c, IntCell(df[j].Year[2]), df[j].County>>) :
                            <<j, c>> \in { jc \in (1..Len(df)) \X {"State", "Region", "County", "county_id", "Year", "Employment"} :
                                             /\ jc[2] \in DOMAIN df[jc[1]]
                                             /\ jc[2] \notin {"State", "Region", "County", "Year"} } }
        IN  out.raised = "no" =>
                /\ NodesOf(out.graph, "Metrics") = NodesOf(graph, "Metrics") \cup expected
                /\ \A n \in expected : CopiesIn(n, out.graph.nodes) = 1

\* after a committed call the graph holds the Metrics of county_id and of
\* Employment, and none named after a dimension column
C5_Witness ==
    /\ raised = "no"
    /\ Node("Metrics", <<"county_id", IntCell(2020), "Cuyahoga">>) \in BagToSet(graph.nodes)
    /\ Node("Metrics", <<"Employment", IntCell(2020), "Cuyahoga">>) \in BagToSet(graph.nodes)
    /\ \A n \in NodesOf(graph, "Metrics") : n[2][1] \notin {"State", "Region", "County", "Year"}

----------------------------------------------------------------------------
(* Properties of the run of __main__, checked under Spec *)

Min(S) == CHOOSE x \in S : \A y \in S : x <= y

\* where the underscores of a name are, and the end of the name
Cuts(name) == { j \in 1..Len(name) : name[j] = "_" } \cup {Len(name) + 1}
FirstSegment(name) == SubSeq(name, 1, Min(Cuts(name)) - 1)
HasSecondSegment(name) == Min(Cuts(name)) <= Len(name)
SecondSegment(name) ==
    LET p1 == Min(Cuts(name))
        p2 == Min({ j \in Cuts(name) : j > p1 })
    IN  SubSeq(name, p1 + 1, p2 - 1)

Classified == pc # "generate_sector_dict"

\* the entries of sector_dict whose transaction committed
Ingested == IF idx = 0 THEN 0 ELSE idx - 1

TableOf(j) == data_dict[Lookup(data_dict, LookupKey(sector_dict[j].key, sector_dict[j].value))].df

MetricsOf(df) ==
    { MetricNode(df[j], c) : <<j, c>> \in { jc \in (1..Len(df)) \X {"county_id", "Employment"} :
                                              jc[2] \in DOMAIN df[jc[1]] } }

Runs(l) == SelectSeq(l, LAMBDA e : e.op = "run")

\* C6: table classifier.  sector_dict has one entry for every first segment of
\* a table name, in the order the first segments first appear; the value of an
\* entry is the second segment of the last name with that first segment, or
\* None when that name has no underscore; later segments play no part.
\* Retail_Grocery, Housing gives Retail -> Grocery, Housing -> None.
C6_Classifier ==
    Classified =>
        LET names == DataKeys(data_dict)
            lastOf(k) == CHOOSE j \in 1..Len(names) :
                             /\ FirstSegment(names[j]) = k
                             /\ \A m \in (j + 1)..Len(names) : FirstSegment(names[m]) # k
            firstAt(k) == Min({ j \in 1..Len(names) : FirstSegment(names[j]) = k })
        IN  /\ { sector_dict[j].key : j \in 1..Len(sector_dict) }
                 = { FirstSegment(names[j]) : j \in 1..Len(names) }
            /\ \A j, m \in 1..Len(sector_dict) :
                   j < m => firstAt(sector_dict[j].key) < firstAt(sector_dict[m].key)
            /\ \A j \in 1..Len(sector_dict) :
                   LET n == names[lastOf(sector_dict[j].key)]
                   IN  sector_dict[j].value = IF HasSecondSegment(n) THEN SecondSegment(n) ELSE None
            /\ names = <<Underscore(Retail, Grocery), Housing>> =>
                   sector_dict = << [key |-> Retail, value |-> Grocery], [key |-> Housing, value |-> None] >>

\* Retail_Grocery_Housing then Retail: the third segment is dropped, and the
\* later name's None replaces Grocery
C6_Witness ==
    /\ Classified
    /\ DataKeys(data_dict) = <<Underscore(Underscore(Retail, Grocery), Housing), Retail>>
    /\ sector_dict = << [key |-> Retail, value |-> None] >>

\* C3: sub-sector branching.  For every entry ingested so far: when
\* load_dataframe was called with a sub-sector id, every Metric of the table
\* hangs from that Sub_Sector node by a REPORTS edge; when it was called with
\* None, every Metric of the table hangs from the Sector node by a REPORTS edge;
\* and when every call so far was given None, the graph has no Sub_Sector node.
C3_SubSectorBranching ==
    LET callOf(j) == MainArgs(sector_dict[j].key, sector_dict[j].value)
    IN  /\ \A j \in 1..Ingested :
               LET a == callOf(j)
                   anchor == IF a.sub_sector_name # None
                             THEN Node("Sub_Sector", <<a.sub_sector_name>>)
                             ELSE Node("Sector", <<a.sector_name>>)
               IN  \A m \in MetricsOf(TableOf(j)) :
                       BagIn(Edge(anchor, "REPORTS", m), graph.edges)
        /\ (\A j \in 1..Ingested : callOf(j).sub_sector_name = None)
               => NodesOf(graph, "Sub_Sector") = {}

\* C4: keys follow the table name.  For every ingested entry whose table is
\* named SECTOR_SUBSECTOR and has rows, the graph holds Sector(SECTOR),
\* Sub_Sector(SUBSECTOR), Sector(SECTOR)-HAS_SUB_SECTOR->Sub_Sector(SUBSECTOR)
\* and County-HAS_SECTOR->Sector(SECTOR) for every county of the table.
C4_KeysFollowTableName ==
    \A j \in 1..Ingested :
        LET name == LookupKey(sector_dict[j].key, sector_dict[j].value)
            df == TableOf(j)
            sector == Node("Sector", <<FirstSegment(name)>>)
            sub == Node("Sub_Sector", <<SecondSegment(name)>>)
        IN  (HasSecondSegment(name) /\ SecondSegment(name) # <<>> /\ df # <<>>) =>
                /\ BagIn(sector, graph.nodes)
                /\ BagIn(sub, graph.nodes)
                /\ BagIn(Edge(sector, "HAS_SUB_SECTOR", sub), graph.edges)
                /\ \A k \in 1..Len(df) :
                       BagIn(Edge(Node("County", <<df[k].County, df[k].county_id>>), "HAS_SECTOR", sector),
                             graph.edges)

HasQuote(id) == \E j \in 1..Len(id) : id[j] = "'"

\* C7: injection safety.  For the sector id and the sub-sector id of every call
\* whose query reached the graph store, when the id holds a quote the text
\* embedded between the single quotes of the query is read back as one literal
\* whose value is the id, and the query is not rejected as malformed.
C7_InjectionSafe ==
    (args.called /\ raised # "ServiceUnavailable") =>
        /\ \A id \in {args.sub_sector_name, args.sector_name} :
               (id # None /\ HasQuote(id)) =>
                   ReadLiteral(Replace(Str(id))) = [ok |-> TRUE, val |-> id]
        /\ raised # "CypherSyntaxError"

Closes(l) == { j \in 1..Len(l) : l[j].op = "close" }

\* C8: release of the connection.  The connection is closed at most once and
\* nothing is issued after the close; a run that opened the connection and has
\* ended, with or without an error, closed it exactly once; transactions are
\* issued only on an opened connection.
C8_ConnectionReleased ==
    /\ Cardinality(Closes(log)) <= 1
    /\ \A j \in Closes(log) : j = Len(log)
    /\ (driver = "closed") <=> (Closes(log) # {})
    /\ (driver = "none") => log = <<>>
    /\ (pc \in {"exit_ok", "exit_err"} /\ driver # "none") =>
           /\ driver = "closed"
           /\ Cardinality(Closes(log)) = 1

\* a run ended by an error after a committed transaction, its connection closed last
C8_Witness ==
    /\ pc = "exit_err"
    /\ raised # "no"
    /\ Len(log) >= 2
    /\ log[1].op = "run"
    /\ log[Len(log)].op = "close"
    /\ driver = "closed"

RECURSIVE Replay(_)
\* the graph left by the committed transactions of entries 1..k, in order
Replay(k) ==
    IF k = 0 THEN EmptyGraph
    ELSE LET e == sector_dict[k]
             a == MainArgs(e.key, e.value)
         IN  IF HasTable(data_dict, LookupKey(e.key, e.value))
             THEN load_dataframe(Replay(k - 1), TableOf(k), a.sub_sector_name, a.sector_name).graph
             ELSE Replay(k - 1)

\* the lookup keys of entries 1..k
KeysUpTo(k) ==
    [ j \in 1..k |-> IF sector_dict[j].value # None /\ sector_dict[j].value # <<>>
                     THEN sector_dict[j].key \o <<"_">> \o sector_dict[j].value
                     ELSE sector_dict[j].key ]

RunTables(l) == [ j \in 1..Len(Runs(l)) |-> Runs(l)[j].table ]

\* C9: fail-fast abort.  Once an entry has failed, the run is on its way out
\* with the error: the transactions issued are those of the entries before the
\* failing one and, for a failed transaction, that one attempt; the graph holds
\* exactly what the entries before the failing one wrote; the run ends in error
\* with the connection closed last.  A run that ends without error had every
\* table found and every transaction committed.
C9_FailFast ==
    /\ (raised # "no" /\ driver # "none") =>
           /\ pc \in {"finally", "exit_err"}
           /\ RunTables(log) = KeysUpTo(IF raised = "KeyError" THEN idx - 1 ELSE idx)
           /\ graph = Replay(idx - 1)
           /\ (pc = "exit_err" => driver = "closed" /\ log[Len(log)].op = "close")
    /\ pc = "exit_ok" =>
           /\ raised = "no"
           /\ \A j \in 1..Len(sector_dict) : HasTable(data_dict, KeysUpTo(j)[j])
           /\ graph = Replay(Len(sector_dict))

\* the second of three entries failed its lookup: the first one's writes are in
\* the graph, no transaction was issued for the second or the third
C9_Witness ==
    /\ pc = "exit_err"
    /\ raised = "KeyError"
    /\ idx = 2
    /\ Len(sector_dict) = 3
    /\ Len(Runs(log)) = 1
    /\ graph # EmptyGraph
    /\ driver = "closed"

\* C10 as stated: every routing-table entry resolves to a loaded table, and a
\* run that ends without error issued exactly one transaction for every loaded
\* table.
C10_EveryTableIngested ==
    /\ Classified =>
           \A j \in 1..Len(sector_dict) : HasTable(data_dict, KeysUpTo(j)[j])
    /\ pc = "exit_ok" =>
           \A t \in 1..Len(data_dict) :
               Cardinality({ j \in 1..Len(log) : log[j].op = "run" /\ log[j].table = data_dict[t].name }) = 1

\* the names for which entries and tables correspond one to one
WellNamed(names) ==
    /\ \A j \in 1..Len(names) :
           /\ Cardinality(Cuts(names[j])) <= 2
           /\ HasSecondSegment(names[j]) => SecondSegment(names[j]) # <<>>
    /\ \A j, k \in 1..Len(names) : j # k => FirstSegment(names[j]) # FirstSegment(names[k])

\* C10 amended: a run that ends without error issued exactly one transaction
\* for every routing-table entry, in routing-table order, each on the loaded
\* table named by the entry's lookup key; these are at most as many as the
\* loaded tables, and all of them when every name has at most two segments, no
\* empty second segment and a first segment of its own.
C10_OneTransactionPerEntry ==
    pc = "exit_ok" =>
        /\ RunTables(log) = KeysUpTo(Len(sector_dict))
        /\ \A j \in 1..Len(Runs(log)) : HasTable(data_dict, Runs(log)[j].table)
        /\ Len(Runs(log)) <= Len(data_dict)
        /\ WellNamed(DataKeys(data_dict)) =>
               \A t \in 1..Len(data_dict) :
                   Cardinality({ j \in 1..Len(log) : log[j].op = "run" /\ log[j].table = data_dict[t].name }) = 1

\* two tables share the first segment Retail: the run ends without error after
\* a single transaction
C10_Witness ==
    /\ pc = "exit_ok"
    /\ Len(data_dict) = 2
    /\ Len(sector_dict) = 1
    /\ Len(Runs(log)) = 1

====
